---- MODULE Spec2Model ----
(***************************************************************************)
(* Model of the control core of the filament workstation:                  *)
(*   - DiameterTracker and LaserMachine   (machines/laser/mod.rs, new.rs)   *)
(*   - DiameterController                 (machines/winder2/                *)
(*                                          diameter_controller.rs)         *)
(*   - PullerSpeedController              (machines/winder2/                *)
(*                                          puller_speed_controller.rs)     *)
(*                                                                         *)
(* Numbers.  f64 quantities are modelled as exact fixed-point integers;     *)
(* every input is a finite number.  Instants and Durations are whole        *)
(* seconds.  Option<T> is a sequence: << >> is None and <<v>> is Some(v).   *)
(***************************************************************************)
EXTENDS Integers, Sequences, FiniteSets, TLC

VARIABLES
    \* ---- DiameterTracker (laser/mod.rs:33-36)
    measurements,            \* VecDeque<DiameterMeasurement>, front first
    timeframe_duration,      \* Duration, seconds
    \* ---- LaserMachine (laser/mod.rs:102-128)
    diameter,                \* Length, last reading
    x_diameter,              \* Option<Length>
    y_diameter,              \* Option<Length>
    roundness,               \* Option<f64>, a ratio <<num, den>>
    laser_target,            \* LaserTarget
    emitted_default_state,   \* bool
    \* ---- environment and observation of the laser machine
    now,                     \* the monotonic clock read by Instant::now()
    emitted,                 \* events the last operation put on the namespace
    state_events,            \* number of State events so far (saturating)
    default_events,          \* number of those with is_default_state (saturating)
    lastOp,                  \* the last operation and its arguments
    last_timestamp,          \* Option: the timestamp of the last add_measurement
    in_order,                \* no add_measurement so far went back in time
    evicted,                 \* the samples the last tracker operation evicted
    \* ---- DiameterController (winder2/diameter_controller.rs:39-71)
    diameter_pid,            \* PidController
    volume_pid,              \* PidController
    target_diameter,         \* Length
    current_diameter,        \* Length
    target_volume_rate,      \* VolumeRate
    current_volume_rate,     \* VolumeRate
    strategy,                \* DiameterControlStrategy
    enabled,                 \* bool
    speed_scale_factor,      \* f64
    last_update,             \* Option<Instant>
    \* ---- environment and observation of the controller
    clock,                   \* the time of the last tick, in tick units
    output,                  \* what the last call returned, if it was an update
    fed,                     \* an enabled update was fed a non-zero error
    since_disable,           \* set_enabled(false) was called, and no enabled
                             \* update since
    \* ---- PullerSpeedController (winder2/puller_speed_controller.rs:18-30)
    puller_enabled,          \* enabled: bool
    puller_target_speed,     \* target_speed: Velocity
    puller_target_diameter,  \* target_diameter: Length
    regulation_mode,         \* PullerRegulationMode
    forward,                 \* bool
    acceleration_controller, \* LinearJerkSpeedController
    last_speed,              \* Velocity
    \* ---- observation
    inserted                 \* every sample add_measurement was called with,
                             \* in call order (recorded under SpecHistory)

laserVars == <<measurements, timeframe_duration, diameter, x_diameter,
               y_diameter, roundness, laser_target, emitted_default_state,
               now, emitted, state_events, default_events, lastOp,
               last_timestamp, in_order, evicted>>

regVars == <<diameter_pid, volume_pid, target_diameter, current_diameter,
             target_volume_rate, current_volume_rate, strategy, enabled,
             speed_scale_factor, last_update, clock, output, fed,
             since_disable>>

pullerVars == <<puller_enabled, puller_target_speed, puller_target_diameter,
                regulation_mode, forward, acceleration_controller, last_speed>>

historyVars == <<inserted>>

vars == <<laserVars, regVars, pullerVars, historyVars>>

-----------------------------------------------------------------------------
(* Bounds of the model *)

\* the last instant of a tick of the controller, in tick units
MaxClock == 3
\* the largest screw speed of the round trip, in rev/min
MaxRpm == 130
\* samples a tracker may hold after an insertion
MaxSamples == 3
\* samples the tracker of the laser machine may hold after an update
MaxLaserSamples == 2
\* the saturation point of the event counters
MaxCount == 3

-----------------------------------------------------------------------------
(* Values *)

None == << >>
Some(v) == <<v>>
IsSome(o) == o # << >>
Unwrap(o) == o[1]

\* f64::INFINITY and f64::NEG_INFINITY: beyond every diameter of the model
F64_INFINITY == 1000000
F64_NEG_INFINITY == -1000000

\* The instants add_measurement is called with: their differences fall on,
\* inside and outside the windows of TimeframeMinutes.
Instants == {0, 10, 60, 61, 121}
\* the instants the clock of the laser machine shows
LaserInstants == {0, 60, 61}

\* lengths are in hundredths of a millimetre
\* diameters add_measurement is called with (update only passes d > 0)
SampleDiameters == {170, 175, 180}
\* what the laser reports: the diameter, and the pair of axis diameters
ReadingDiameters == {0, 175}
ReadingAxes == {<<None, None>>, <<Some(170), None>>,
                <<Some(0), Some(0)>>, <<Some(0), Some(175)>>,
                <<Some(175), Some(170)>>, <<Some(175), Some(175)>>}
\* Option<LaserData>
LaserReadings == {None} \cup
    {Some([diameter |-> d, x_axis |-> a[1], y_axis |-> a[2]]) :
        d \in ReadingDiameters, a \in ReadingAxes}
\* arguments of the tolerance and target setters
ToleranceArgs == {-1, 2}
TargetArgs == {-1, 285}
\* arguments of set_timeframe / set_min_max_timeframe, in minutes
TimeframeMinutes == {0, 1, 2}
\* arguments of set_min_max_timeframe, in minutes
LaserTimeframeMinutes == {0, 1}

-----------------------------------------------------------------------------
(* DiameterTracker *)

\* Duration::from_secs(timeframe_minutes * 60)
timeframe_secs(timeframe_minutes) == timeframe_minutes * 60

\* DiameterTracker::new
DiameterTracker_new(timeframe_minutes) ==
    [measurements |-> << >>,
     timeframe_duration |-> timeframe_secs(timeframe_minutes)]

\* a mutant of the eviction test: evicts the sample on the boundary too
is_outside_le(front, cutoff) == front.timestamp <= cutoff

\* the eviction test `front.timestamp < cutoff`
is_outside(front, cutoff) == front.timestamp < cutoff

\* a mutant of the eviction: every sample before the cutoff is removed,
\* wherever it stands (VecDeque::retain)
evict_retain(ms, cutoff) == SelectSeq(ms, LAMBDA s : ~is_outside(s, cutoff))

\* a mutant of the eviction loop: an `if` in place of the `while`
evict_once(ms, cutoff) ==
    IF ms # << >> /\ is_outside(Head(ms), cutoff) THEN Tail(ms) ELSE ms

\* while let Some(front) = measurements.front() { if front.timestamp < cutoff
\*   { pop_front } else { break } }
RECURSIVE evict(_, _)
evict(ms, cutoff) ==
    IF ms = << >> THEN ms
    ELSE IF is_outside(Head(ms), cutoff) THEN evict(Tail(ms), cutoff)
    ELSE ms

\* a mutant of add_measurement: the sample is stored, nothing is evicted
add_measurement_no_evict(ms, duration, d, timestamp) ==
    Append(ms, [diameter |-> d, timestamp |-> timestamp])

\* DiameterTracker::add_measurement: push_back, then evict before
\* timestamp - timeframe_duration
add_measurement(ms, duration, d, timestamp) ==
    evict(Append(ms, [diameter |-> d, timestamp |-> timestamp]),
          timestamp - duration)

\* a mutant of the loop of get_min_max: the second test hangs on an `else`
RECURSIVE min_max_loop_else(_, _, _, _)
min_max_loop_else(ms, i, min, max) ==
    IF i > Len(ms) THEN <<min, max>>
    ELSE min_max_loop_else(ms, i + 1,
            IF ms[i].diameter < min THEN ms[i].diameter ELSE min,
            IF ms[i].diameter >= min /\ ms[i].diameter > max
            THEN ms[i].diameter ELSE max)

\* the loop of get_min_max, from index i on
RECURSIVE min_max_loop(_, _, _, _)
min_max_loop(ms, i, min, max) ==
    IF i > Len(ms) THEN <<min, max>>
    ELSE min_max_loop(ms, i + 1,
                      IF ms[i].diameter < min THEN ms[i].diameter ELSE min,
                      IF ms[i].diameter > max THEN ms[i].diameter ELSE max)

\* DiameterTracker::get_min_max
get_min_max(ms) ==
    IF ms = << >> THEN <<None, None>>
    ELSE LET r == min_max_loop(ms, 1, F64_INFINITY, F64_NEG_INFINITY)
         IN  <<Some(r[1]), Some(r[2])>>

\* DiameterTracker::set_timeframe: the measurements it keeps
set_timeframe(ms, timeframe_minutes) ==
    IF ms # << >>
    THEN evict(ms, ms[Len(ms)].timestamp - timeframe_secs(timeframe_minutes))
    ELSE ms

\* what an eviction took from the front of `before`
dropped(before, after) == SubSeq(before, 1, Len(before) - Len(after))

\* the variables of the laser machine outside its tracker
machineVars == <<diameter, x_diameter, y_diameter, roundness, laser_target,
                 emitted_default_state, now, emitted, state_events,
                 default_events>>

\* the laser machine's own fields while only a tracker or a controller runs
MachineIdle ==
    /\ diameter = 0
    /\ x_diameter = << >>
    /\ y_diameter = << >>
    /\ roundness = << >>
    /\ laser_target = [higher_tolerance |-> 5, lower_tolerance |-> 5,
                       diameter |-> 175, min_max_timeframe_minutes |-> 30]
    /\ emitted_default_state = FALSE
    /\ emitted = << >>
    /\ state_events = 0
    /\ default_events = 0
    /\ now = 0

\* no call of add_measurement was recorded
NoHistory == inserted = << >>

\* the observation of a tracker no call was made on
TrackerFresh ==
    /\ lastOp = [op |-> "new"]
    /\ last_timestamp = << >>
    /\ in_order = TRUE
    /\ evicted = << >>

\* A tracker on its own: DiameterTracker::new(timeframe_minutes)
TrackerNew ==
    /\ \E m \in TimeframeMinutes :
          /\ measurements = DiameterTracker_new(m).measurements
          /\ timeframe_duration = DiameterTracker_new(m).timeframe_duration
    /\ TrackerFresh

\* DiameterTracker::add_measurement called with any diameter and instant
TrackerAddMeasurement(d, timestamp) ==
    /\ Len(add_measurement(measurements, timeframe_duration, d, timestamp))
          <= MaxSamples
    /\ measurements' = add_measurement(measurements, timeframe_duration, d,
                                       timestamp)
    /\ last_timestamp' = <<timestamp>>
    /\ in_order' = (in_order /\ (last_timestamp # << >>
                                   => timestamp >= last_timestamp[1]))
    /\ lastOp' = [op |-> "add_measurement", diameter |-> d,
                  timestamp |-> timestamp]
    /\ evicted' = dropped(Append(measurements,
                                 [diameter |-> d, timestamp |-> timestamp]),
                          measurements')
    /\ UNCHANGED <<timeframe_duration, machineVars>>

\* DiameterTracker::set_timeframe
TrackerSetTimeframe(timeframe_minutes) ==
    /\ timeframe_duration' = timeframe_secs(timeframe_minutes)
    /\ measurements' = set_timeframe(measurements, timeframe_minutes)
    /\ lastOp' = [op |-> "set_timeframe", timeframe_minutes |-> timeframe_minutes]
    /\ evicted' = dropped(measurements, measurements')
    /\ UNCHANGED <<last_timestamp, in_order, machineVars>>

NextTracker ==
    \/ \E d \in SampleDiameters, t \in Instants : TrackerAddMeasurement(d, t) /\ UNCHANGED <<regVars, pullerVars, historyVars>>
    \/ \E m \in TimeframeMinutes : TrackerSetTimeframe(m) /\ UNCHANGED <<regVars, pullerVars, historyVars>>

-----------------------------------------------------------------------------
(* LaserMachine *)

Min(a, b) == IF a < b THEN a ELSE b
Max(a, b) == IF a > b THEN a ELSE b
Bump(n, k) == Min(n + k, MaxCount)

\* the LaserTarget literal of LaserMachine::new
DefaultLaserTarget ==
    [higher_tolerance |-> 5, lower_tolerance |-> 5, diameter |-> 175,
     min_max_timeframe_minutes |-> 30]

\* a mutant of the flag of emit_state: the negation is lost
is_default_flag_plain(flag) == flag

\* `!std::mem::replace(&mut self.emitted_default_state, true)`: the value
\* the event carries (the flag itself becomes true)
is_default_flag(flag) == ~flag

\* a mutant of the StateEvent: the two tolerances exchanged
state_event_swapped(flag, target) ==
    [type |-> "State",
     is_default_state |-> is_default_flag(flag),
     laser_state |->
        [higher_tolerance |-> target.lower_tolerance,
         lower_tolerance |-> target.higher_tolerance,
         target_diameter |-> target.diameter,
         min_max_timeframe_minutes |-> target.min_max_timeframe_minutes]]

\* the StateEvent emit_state builds
state_event(flag, target) ==
    [type |-> "State",
     is_default_state |-> is_default_flag(flag),
     laser_state |->
        [higher_tolerance |-> target.higher_tolerance,
         lower_tolerance |-> target.lower_tolerance,
         target_diameter |-> target.diameter,
         min_max_timeframe_minutes |-> target.min_max_timeframe_minutes]]

\* a mutant of calculate_roundness: x / y in place of min / max
calculate_roundness_x_over_y(x, y) ==
    IF IsSome(x) /\ IsSome(y)
    THEN IF Unwrap(x) > 0 /\ Unwrap(y) > 0 THEN Some(<<Unwrap(x), Unwrap(y)>>)
         ELSE IF Unwrap(x) = 0 /\ Unwrap(y) = 0 THEN Some(<<0, 1>>)
         ELSE None
    ELSE None

\* a mutant of calculate_roundness: any two present axes give a ratio
calculate_roundness_total(x, y) ==
    IF IsSome(x) /\ IsSome(y)
    THEN IF Unwrap(x) = 0 /\ Unwrap(y) = 0 THEN Some(<<0, 1>>)
         ELSE Some(<<Min(Unwrap(x), Unwrap(y)), Max(Unwrap(x), Unwrap(y))>>)
    ELSE None

\* LaserMachine::calculate_roundness; the ratio min / max is kept as the
\* pair <<min, max>>, and 0.0 as <<0, 1>>
calculate_roundness(x, y) ==
    IF IsSome(x) /\ IsSome(y)
    THEN LET x_val == Unwrap(x)
             y_val == Unwrap(y)
         IN  IF x_val > 0 /\ y_val > 0
             THEN Some(<<Min(x_val, y_val), Max(x_val, y_val)>>)
             ELSE IF x_val = 0 /\ y_val = 0 THEN Some(<<0, 1>>)
             ELSE None
    ELSE None

\* the effect of emit_state on the machine and on the namespace
EmitStateWith(target) ==
    /\ emitted' = <<state_event(emitted_default_state, target)>>
    /\ emitted_default_state' = TRUE
    /\ state_events' = Bump(state_events, 1)
    /\ default_events' =
          IF is_default_flag(emitted_default_state)
          THEN Bump(default_events, 1) ELSE default_events

\* LaserMachine::new: the struct literal, then emit_state
LaserMachine_new ==
    /\ measurements = DiameterTracker_new(
                          DefaultLaserTarget.min_max_timeframe_minutes).measurements
    /\ timeframe_duration = DiameterTracker_new(
                          DefaultLaserTarget.min_max_timeframe_minutes).timeframe_duration
    /\ diameter = 0
    /\ x_diameter = None
    /\ y_diameter = None
    /\ roundness = None
    /\ laser_target = DefaultLaserTarget
    /\ emitted_default_state = TRUE
    /\ emitted = <<state_event(FALSE, DefaultLaserTarget)>>
    /\ state_events = 1
    /\ default_events = IF is_default_flag(FALSE) THEN 1 ELSE 0
    /\ now \in LaserInstants
    /\ TrackerFresh

\* LaserMachine::emit_state
EmitState ==
    /\ EmitStateWith(laser_target)
    /\ lastOp' = [op |-> "emit_state"]
    /\ UNCHANGED <<measurements, timeframe_duration, diameter, x_diameter,
                   y_diameter, roundness, laser_target, now, last_timestamp,
                   in_order, evicted>>

\* LaserMachine::set_higher_tolerance
SetHigherTolerance(higher_tolerance) ==
    /\ laser_target' = [laser_target EXCEPT !.higher_tolerance = higher_tolerance]
    /\ EmitStateWith(laser_target')
    /\ lastOp' = [op |-> "set_higher_tolerance", arg |-> higher_tolerance]
    /\ UNCHANGED <<measurements, timeframe_duration, diameter, x_diameter,
                   y_diameter, roundness, now, last_timestamp, in_order,
                   evicted>>

\* LaserMachine::set_lower_tolerance
SetLowerTolerance(lower_tolerance) ==
    /\ laser_target' = [laser_target EXCEPT !.lower_tolerance = lower_tolerance]
    /\ EmitStateWith(laser_target')
    /\ lastOp' = [op |-> "set_lower_tolerance", arg |-> lower_tolerance]
    /\ UNCHANGED <<measurements, timeframe_duration, diameter, x_diameter,
                   y_diameter, roundness, now, last_timestamp, in_order,
                   evicted>>

\* LaserMachine::set_target_diameter
SetTargetDiameter(d) ==
    /\ laser_target' = [laser_target EXCEPT !.diameter = d]
    /\ EmitStateWith(laser_target')
    /\ lastOp' = [op |-> "set_target_diameter", arg |-> d]
    /\ UNCHANGED <<measurements, timeframe_duration, diameter, x_diameter,
                   y_diameter, roundness, now, last_timestamp, in_order,
                   evicted>>

\* LaserMachine::set_min_max_timeframe
SetMinMaxTimeframe(timeframe_minutes) ==
    /\ laser_target' =
          [laser_target EXCEPT !.min_max_timeframe_minutes = timeframe_minutes]
    /\ timeframe_duration' = timeframe_secs(timeframe_minutes)
    /\ measurements' = set_timeframe(measurements, timeframe_minutes)
    /\ EmitStateWith(laser_target')
    /\ lastOp' = [op |-> "set_min_max_timeframe", arg |-> timeframe_minutes]
    /\ evicted' = dropped(measurements, measurements')
    /\ UNCHANGED <<diameter, x_diameter, y_diameter, roundness, now,
                   last_timestamp, in_order>>

\* LaserMachine::emit_live_values
EmitLiveValues ==
    /\ emitted' = <<[type |-> "LiveValues", diameter |-> diameter,
                     x_diameter |-> x_diameter, y_diameter |-> y_diameter,
                     roundness |-> roundness]>>
    /\ lastOp' = [op |-> "emit_live_values"]
    /\ UNCHANGED <<measurements, timeframe_duration, diameter, x_diameter,
                   y_diameter, roundness, laser_target, emitted_default_state,
                   now, state_events, default_events, last_timestamp, in_order,
                   evicted>>

\* LaserMachine::emit_min_max_diameter
EmitMinMaxDiameter ==
    /\ emitted' = <<[type |-> "MinMaxDiameter",
                     min_diameter |-> get_min_max(measurements)[1],
                     max_diameter |-> get_min_max(measurements)[2],
                     timeframe_minutes |-> laser_target.min_max_timeframe_minutes]>>
    /\ lastOp' = [op |-> "emit_min_max_diameter"]
    /\ UNCHANGED <<measurements, timeframe_duration, diameter, x_diameter,
                   y_diameter, roundness, laser_target, emitted_default_state,
                   now, state_events, default_events, last_timestamp, in_order,
                   evicted>>

\* a mutant of the guard of update: a zero reading is stored too
is_valid_reading_ge(diameter_mm) == diameter_mm >= 0

\* `if diameter_mm > 0.0` in update
is_valid_reading(diameter_mm) == diameter_mm > 0

\* LaserMachine::update, with the reading the laser gives and the instant
\* Instant::now() returns (the clock never goes back)
Update(laser_data, t) ==
    LET diameter_mm == IF IsSome(laser_data) THEN Unwrap(laser_data).diameter
                       ELSE 0
        x == IF IsSome(laser_data) THEN Unwrap(laser_data).x_axis ELSE None
        y == IF IsSome(laser_data) THEN Unwrap(laser_data).y_axis ELSE None
    IN  /\ t >= now
        /\ is_valid_reading(diameter_mm) =>
              Len(add_measurement(measurements, timeframe_duration,
                                  diameter_mm, t)) <= MaxLaserSamples
        /\ now' = t
        /\ diameter' = diameter_mm
        /\ IF is_valid_reading(diameter_mm)
           THEN /\ measurements' = add_measurement(measurements,
                                        timeframe_duration, diameter_mm, t)
                /\ last_timestamp' = Some(t)
                /\ in_order' = (in_order /\ (IsSome(last_timestamp)
                                               => t >= Unwrap(last_timestamp)))
                /\ evicted' = dropped(Append(measurements,
                                  [diameter |-> diameter_mm, timestamp |-> t]),
                                  measurements')
           ELSE /\ UNCHANGED <<measurements, last_timestamp, in_order>>
                /\ evicted' = << >>
        /\ x_diameter' = x
        /\ y_diameter' = y
        /\ roundness' = calculate_roundness(x', y')
        /\ emitted' = << >>
        /\ lastOp' = [op |-> "update", present |-> IsSome(laser_data),
                      dropout |-> (~IsSome(laser_data) \/ diameter_mm = 0)]
        /\ UNCHANGED <<timeframe_duration, laser_target, emitted_default_state,
                       state_events, default_events>>

NextLaser ==
    \/ EmitState /\ UNCHANGED <<regVars, pullerVars, historyVars>>
    \/ \E v \in ToleranceArgs : SetHigherTolerance(v) /\ UNCHANGED <<regVars, pullerVars, historyVars>>
    \/ \E v \in ToleranceArgs : SetLowerTolerance(v) /\ UNCHANGED <<regVars, pullerVars, historyVars>>
    \/ \E v \in TargetArgs : SetTargetDiameter(v) /\ UNCHANGED <<regVars, pullerVars, historyVars>>
    \/ \E m \in LaserTimeframeMinutes : SetMinMaxTimeframe(m) /\ UNCHANGED <<regVars, pullerVars, historyVars>>
    \/ EmitLiveValues /\ UNCHANGED <<regVars, pullerVars, historyVars>>
    \/ EmitMinMaxDiameter /\ UNCHANGED <<regVars, pullerVars, historyVars>>
    \/ \E r \in LaserReadings, t \in LaserInstants : Update(r, t) /\ UNCHANGED <<regVars, pullerVars, historyVars>>

-----------------------------------------------------------------------------
(* PidController (control_core::controllers::pid): a proportional,         *)
(* integral and derivative term over the error, the integral and the last  *)
(* error cleared by reset.  Gains are kp/den, ki/den and kd/den.            *)

\* the least common multiple of TickSteps
DtLcm == 2
\* the tick units between two ticks of the controller
TickSteps == {1, 2}

\* PidController::new
PidController_new(kp, ki, kd, den) ==
    [kp |-> kp, ki |-> ki, kd |-> kd, den |-> den,
     ep |-> 0, ei |-> 0, last |-> None]

\* PidController::reset
pid_reset(pid) == [pid EXCEPT !.ep = 0, !.ei = 0, !.last = None]

\* a PID that holds no integral and no last error, as after reset
is_clear(pid) == pid.ep = 0 /\ pid.ei = 0

\* the time since the last update of the PID (none on its first update)
pid_dt(pid, t) == IF IsSome(pid.last) THEN t - Unwrap(pid.last) ELSE 0

\* the integral after an update with `error` at t
pid_integral(pid, error, t) == pid.ei + error * pid_dt(pid, t)

\* PidController::update: the signal, times den * DtLcm
pid_signal(pid, error, t) ==
    LET dt == pid_dt(pid, t)
    IN  DtLcm * (pid.kp * error + pid.ki * pid_integral(pid, error, t))
        + (IF dt > 0 THEN pid.kd * (error - pid.ep) * (DtLcm \div dt) ELSE 0)

\* PidController::update: the controller after it
pid_update(pid, error, t) ==
    [pid EXCEPT !.ei = pid_integral(pid, error, t), !.ep = error,
                !.last = Some(t)]

-----------------------------------------------------------------------------
(* DiameterController.  Units: diameters in 0.01 mm; the filament speed in  *)
(* 0.1 m/s; the speed scale factor in tenths; a volume rate in units of     *)
(* (pi/4) * d^2 * v for d and v in these units, so that                      *)
(* calculate_required_volume_rate(d, v) is the integer d * d * v, and the    *)
(* screw speed in the unit that makes one volume unit per second 120 screw   *)
(* units (60 / SCREW_DISPLACEMENT_PER_REV).  A correction and an adjustment  *)
(* is an integer numerator over a fixed denominator (the PID's den * DtLcm,  *)
(* the tenths of the strategy weight and of the winder gain, the hundredths  *)
(* of the filter alpha), so that it is zero exactly when the f64 is zero.    *)

\* SCREW_DISPLACEMENT_PER_REV = 0.5, in tenths
SCREW_DISPLACEMENT_PER_REV == 5
\* min_process_speed_factor = 0.5 and max_process_speed_factor = 2.0, in tenths
min_process_speed_factor == 5
max_process_speed_factor == 20
\* min_diameter_tolerance = 0.02 mm and max_diameter_tolerance = 0.05 mm
min_diameter_tolerance == 2
max_diameter_tolerance == 5
\* speed_filter_alpha = 0.1 and volume_filter_alpha = 0.15, in hundredths
speed_filter_alpha == 10
volume_filter_alpha == 15
\* the gain 0.1 of calculate_winder_adjustment, in tenths
WinderGain == 1
\* the weights of the strategies, in tenths (an unweighted correction is 1.0)
Unweighted == 10
BalancedWinderWeight == 6
BalancedExtruderWeight == 4
SpeedPrioritizedExtruderWeight == 8
SpeedPrioritizedWinderWeight == 2
\* seconds per minute
SecondsPerMinute == 60

Strategies == {"WinderOnly", "ExtruderOnly", "Balanced", "SpeedPrioritized"}

\* arguments of new and set_target_diameter
RegTargets == {2, 4}
\* arguments of set_current_diameter
RegCurrents == {2, 4}
\* arguments of set_speed_scale_factor: below, inside and above the range
ScaleArgs == {3, 10, 25}
\* current_filament_speed of a tick
FilamentSpeeds == {0, 1}

\* DiameterControlOutput::default()
DefaultOutput ==
    [winder_speed_adjustment |-> 0, extruder_rpm_adjustment |-> 0,
     diameter_error |-> 0, volume_error |-> 0,
     is_in_tolerance |-> FALSE, is_in_tight_tolerance |-> FALSE,
     current_volume_rate |-> 0, target_volume_rate |-> 0,
     process_speed_factor |-> 0]

\* DiameterController::new(target)
DiameterController_new(target) ==
    /\ diameter_pid = PidController_new(40, 2, 1, 20)
    /\ volume_pid = PidController_new(75, 4, 1, 50)
    /\ target_diameter = target
    /\ current_diameter = 0
    /\ target_volume_rate = 0
    /\ current_volume_rate = 0
    /\ strategy = "Balanced"
    /\ enabled = FALSE
    /\ speed_scale_factor = 10
    /\ last_update = None
    /\ clock = 0
    /\ output = None
    /\ fed = FALSE
    /\ since_disable = FALSE

\* a mutant of clamp: the upper bound is not applied
clamp_low(x, lo, hi) == IF x < lo THEN lo ELSE x

\* f64::clamp
clamp(x, lo, hi) == IF x < lo THEN lo ELSE IF x > hi THEN hi ELSE x

\* DiameterController::calculate_volume_rate_from_rpm
calculate_volume_rate_from_rpm(screw_rpm) ==
    (screw_rpm * SCREW_DISPLACEMENT_PER_REV) \div (10 * SecondsPerMinute)

\* DiameterController::calculate_required_rpm
calculate_required_rpm(volume_rate) ==
    (volume_rate * SecondsPerMinute * 10) \div SCREW_DISPLACEMENT_PER_REV

\* DiameterController::calculate_required_volume_rate, the speed in cm/s
calculate_required_volume_rate(d, filament_speed) == d * d * filament_speed

Abs(x) == IF x < 0 THEN 0 - x ELSE x

\* a mutant of is_diameter_in_tolerance: the bound is exclusive
is_diameter_in_tolerance_strict(current, target) ==
    Abs(current - target) < max_diameter_tolerance

\* DiameterController::is_diameter_in_tolerance
is_diameter_in_tolerance(current, target) ==
    Abs(current - target) <= max_diameter_tolerance

\* DiameterController::is_diameter_in_tight_tolerance
is_diameter_in_tight_tolerance(current, target) ==
    Abs(current - target) <= min_diameter_tolerance

\* a mutant of calculate_winder_adjustment: the correction is not negated
calculate_winder_adjustment_unsigned(diameter_correction, current_speed) ==
    (diameter_correction * WinderGain) * current_speed

\* DiameterController::calculate_winder_adjustment
calculate_winder_adjustment(diameter_correction, current_speed) ==
    ((0 - diameter_correction) * WinderGain) * current_speed

\* DiameterController::calculate_extruder_adjustment; rpm_per_volume is
\* 60.0 / SCREW_DISPLACEMENT_PER_REV
calculate_extruder_adjustment(volume_correction) ==
    volume_correction * ((SecondsPerMinute * 10) \div SCREW_DISPLACEMENT_PER_REV)

\* DiameterController::apply_filter
apply_filter(new_value, alpha) == new_value * alpha

\* a mutant of the match on the strategy: Balanced with its weights exchanged
adjustments_swapped(s, diameter_correction, volume_correction, current_speed) ==
    CASE s = "WinderOnly" ->
           <<calculate_winder_adjustment(diameter_correction * Unweighted,
                                         current_speed),
             0>>
      [] s = "ExtruderOnly" ->
           <<0,
             calculate_extruder_adjustment(volume_correction * Unweighted)>>
      [] s = "Balanced" ->
           <<calculate_winder_adjustment(
                 diameter_correction * BalancedExtruderWeight, current_speed),
             calculate_extruder_adjustment(
                 volume_correction * BalancedWinderWeight)>>
      [] s = "SpeedPrioritized" ->
           <<calculate_winder_adjustment(
                 diameter_correction * SpeedPrioritizedWinderWeight,
                 current_speed),
             calculate_extruder_adjustment(
                 volume_correction * SpeedPrioritizedExtruderWeight)>>

\* the match on the strategy in update
adjustments(s, diameter_correction, volume_correction, current_speed) ==
    CASE s = "WinderOnly" ->
           <<calculate_winder_adjustment(diameter_correction * Unweighted,
                                         current_speed),
             0>>
      [] s = "ExtruderOnly" ->
           <<0,
             calculate_extruder_adjustment(volume_correction * Unweighted)>>
      [] s = "Balanced" ->
           <<calculate_winder_adjustment(
                 diameter_correction * BalancedWinderWeight, current_speed),
             calculate_extruder_adjustment(
                 volume_correction * BalancedExtruderWeight)>>
      [] s = "SpeedPrioritized" ->
           <<calculate_winder_adjustment(
                 diameter_correction * SpeedPrioritizedWinderWeight,
                 current_speed),
             calculate_extruder_adjustment(
                 volume_correction * SpeedPrioritizedExtruderWeight)>>

\* DiameterController::set_target_diameter
RegSetTargetDiameter(d) ==
    /\ target_diameter' = d
    /\ diameter_pid' = pid_reset(diameter_pid)
    /\ lastOp' = [op |-> "set_target_diameter"]
    /\ UNCHANGED <<volume_pid, current_diameter, target_volume_rate,
                   current_volume_rate, strategy, enabled, speed_scale_factor,
                   last_update, clock>>
    /\ output' = None
    /\ UNCHANGED <<fed, since_disable>>

\* DiameterController::set_current_diameter
RegSetCurrentDiameter(d) ==
    /\ current_diameter' = d
    /\ lastOp' = [op |-> "set_current_diameter"]
    /\ UNCHANGED <<diameter_pid, volume_pid, target_diameter,
                   target_volume_rate, current_volume_rate, strategy, enabled,
                   speed_scale_factor, last_update, clock>>
    /\ output' = None
    /\ UNCHANGED <<fed, since_disable>>

\* DiameterController::set_strategy
RegSetStrategy(s) ==
    /\ strategy' = s
    /\ lastOp' = [op |-> "set_strategy"]
    /\ UNCHANGED <<diameter_pid, volume_pid, target_diameter, current_diameter,
                   target_volume_rate, current_volume_rate, enabled,
                   speed_scale_factor, last_update, clock>>
    /\ output' = None
    /\ UNCHANGED <<fed, since_disable>>

\* a mutant of set_enabled: the PIDs are kept on disabling
pids_kept(e, d_pid, v_pid) == <<d_pid, v_pid>>

\* a mutant of set_enabled: the PIDs are reset on enabling too
pids_reset_always(e, d_pid, v_pid) == <<pid_reset(d_pid), pid_reset(v_pid)>>

\* the PIDs after set_enabled(e)
pids_after_set_enabled(e, d_pid, v_pid) ==
    IF ~e THEN <<pid_reset(d_pid), pid_reset(v_pid)>> ELSE <<d_pid, v_pid>>

\* DiameterController::set_enabled
RegSetEnabled(e) ==
    /\ enabled' = e
    /\ diameter_pid' = pids_after_set_enabled(e, diameter_pid, volume_pid)[1]
    /\ volume_pid' = pids_after_set_enabled(e, diameter_pid, volume_pid)[2]
    /\ lastOp' = [op |-> "set_enabled", arg |-> e]
    /\ UNCHANGED <<target_diameter, current_diameter, target_volume_rate,
                   current_volume_rate, strategy, speed_scale_factor,
                   last_update, clock>>
    /\ output' = None
    /\ since_disable' = (~e \/ since_disable)
    /\ UNCHANGED fed

\* DiameterController::set_speed_scale_factor
RegSetSpeedScaleFactor(factor) ==
    /\ speed_scale_factor' = clamp(factor, min_process_speed_factor,
                                   max_process_speed_factor)
    /\ lastOp' = [op |-> "set_speed_scale_factor", arg |-> factor]
    /\ UNCHANGED <<diameter_pid, volume_pid, target_diameter, current_diameter,
                   target_volume_rate, current_volume_rate, strategy, enabled,
                   last_update, clock>>
    /\ output' = None
    /\ UNCHANGED <<fed, since_disable>>

\* the guard of update: `if !self.enabled`, and a mutant that never returns early
is_disabled_never(e) == FALSE

is_disabled(e) == ~e

\* a mutant of the errors of update: the sum for the difference
error_sum(target, current) == target + current

\* the errors of update: target minus current
error_of(target, current) == target - current

\* a mutant of update: only a PID whose output the strategy uses is stepped
pids_after_update_used(s, d_pid, v_pid, diameter_error, volume_error, t) ==
    <<IF s = "ExtruderOnly" THEN d_pid
      ELSE pid_update(d_pid, diameter_error, t),
      IF s = "WinderOnly" THEN v_pid
      ELSE pid_update(v_pid, volume_error, t)>>

\* the PIDs after update: both are updated before the match on the strategy
pids_after_update(s, d_pid, v_pid, diameter_error, volume_error, t) ==
    <<pid_update(d_pid, diameter_error, t),
      pid_update(v_pid, volume_error, t)>>

\* DiameterController::update at current_time = clock + dt
RegUpdate(dt, current_extruder_rpm, current_filament_speed) ==
    LET current_time == clock + dt
    IN
    /\ current_time <= MaxClock
    /\ clock' = current_time
    /\ IF is_disabled(enabled)
       THEN /\ output' = Some(DefaultOutput)
            /\ lastOp' = [op |-> "update", enabled |-> enabled]
            /\ UNCHANGED <<diameter_pid, volume_pid, target_volume_rate,
                           current_volume_rate, last_update, fed,
                           since_disable>>
       ELSE LET q == calculate_volume_rate_from_rpm(current_extruder_rpm)
                qt == calculate_required_volume_rate(target_diameter,
                          current_filament_speed * speed_scale_factor)
                diameter_error ==
                    error_of(target_diameter, current_diameter)
                volume_error == error_of(qt, q)
                diameter_correction ==
                    pid_signal(diameter_pid, diameter_error, current_time)
                volume_correction ==
                    pid_signal(volume_pid, volume_error, current_time)
                adj == adjustments(strategy, diameter_correction,
                                   volume_correction, current_filament_speed)
            IN  /\ last_update' = Some(current_time)
                /\ current_volume_rate' = q
                /\ target_volume_rate' = qt
                /\ diameter_pid' =
                      pids_after_update(strategy, diameter_pid, volume_pid,
                                        diameter_error, volume_error,
                                        current_time)[1]
                /\ volume_pid' =
                      pids_after_update(strategy, diameter_pid, volume_pid,
                                        diameter_error, volume_error,
                                        current_time)[2]
                /\ output' = Some(
                      [winder_speed_adjustment |->
                           apply_filter(adj[1], speed_filter_alpha),
                       extruder_rpm_adjustment |->
                           apply_filter(adj[2], volume_filter_alpha),
                       diameter_error |-> diameter_error,
                       volume_error |-> volume_error,
                       is_in_tolerance |->
                           is_diameter_in_tolerance(current_diameter,
                                                    target_diameter),
                       is_in_tight_tolerance |->
                           is_diameter_in_tight_tolerance(current_diameter,
                                                          target_diameter),
                       current_volume_rate |-> q,
                       target_volume_rate |-> qt,
                       process_speed_factor |-> speed_scale_factor])
                /\ lastOp' = [op |-> "update", enabled |-> enabled,
                              speed |-> current_filament_speed,
                              fed |-> fed,
                              since_disable |-> since_disable,
                              was_clear |-> /\ is_clear(diameter_pid)
                                            /\ is_clear(volume_pid)]
                /\ fed' = (fed \/ diameter_error # 0 \/ volume_error # 0)
                /\ since_disable' = FALSE
    /\ UNCHANGED <<target_diameter, current_diameter, strategy, enabled,
                   speed_scale_factor>>

\* the screw speeds of a tick: at rest, and the speed whose volume rate is
\* the target volume rate of that tick
ScrewSpeeds(current_filament_speed) ==
    {0, calculate_required_rpm(
            calculate_required_volume_rate(target_diameter,
                current_filament_speed * speed_scale_factor))}

\* what the controller leaves alone: the laser machine and its tracker
trackerVars == <<measurements, timeframe_duration, last_timestamp, in_order,
                 evicted, machineVars>>

NextRegulator ==
    \/ \E d \in RegTargets : RegSetTargetDiameter(d) /\ UNCHANGED <<trackerVars, pullerVars, historyVars>>
    \/ \E d \in RegCurrents : RegSetCurrentDiameter(d) /\ UNCHANGED <<trackerVars, pullerVars, historyVars>>
    \/ \E s \in Strategies : RegSetStrategy(s) /\ UNCHANGED <<trackerVars, pullerVars, historyVars>>
    \/ \E e \in BOOLEAN : RegSetEnabled(e) /\ UNCHANGED <<trackerVars, pullerVars, historyVars>>
    \/ \E f \in ScaleArgs : RegSetSpeedScaleFactor(f) /\ UNCHANGED <<trackerVars, pullerVars, historyVars>>
    \/ \E dt \in TickSteps, v \in FilamentSpeeds :
          \E rpm \in ScrewSpeeds(v) :
             RegUpdate(dt, rpm, v) /\ UNCHANGED <<trackerVars, pullerVars, historyVars>>

-----------------------------------------------------------------------------
(* PullerSpeedController (winder2/puller_speed_controller.rs)               *)
(*                                                                          *)
(* Velocities are integers in m/min, accelerations in m/min/s, jerk in      *)
(* m/min/s^2, the target diameter in 0.01 mm.  The motion profile           *)
(* (LinearJerkSpeedController) and the converter (LinearStepConverter) live *)
(* in control_core; they are modelled from sections 4.3 and 4.4 of the      *)
(* specification.  A tick advances the profile by one second.               *)

PullerModes == {"Speed", "Diameter"}

\* new(): acceleration 5.0 m/min/s, jerk 10.0 m/min/s^2, speed 50.0 m/min
PullerMaxAcceleration == 5
PullerMaxJerk == 10
PullerMaxSpeed == 50

\* nominal_volume_flow / (PI * (d/2)^2) with d in 0.01 mm, result in m/min:
\* 0.5e-6 m^3/s * 60 s/min * 4 / (PI * 1e-10 m^2) = 381972 (rounded)
NominalSpeedNumerator == 381972

\* seconds between two ticks of the model
PullerTickSeconds == 1

\* arguments of the setters
PullerTargetSpeeds == {0, 10, 60}
PullerTargetDiameters == {0, 175, 350}

\* LinearJerkSpeedController::new_simple: at rest, no previous timestamp
LinearJerkSpeedController_new == [v |-> 0, a |-> 0, last |-> None]

\* largest k in 0..hi with k*k <= x
isqrt_upto(x, hi) ==
    CHOOSE k \in 0..hi : k * k <= x /\ (k = hi \/ (k + 1) * (k + 1) > x)

Sgn(x) == IF x > 0 THEN 1 ELSE IF x < 0 THEN 0 - 1 ELSE 0

\* section 4.3: target acceleration towards the velocity gap, bounded by
\* max_a, by the s-curve braking distance, and by the gap itself
target_acceleration(gap, dt) ==
    Sgn(gap) * Min(Min(PullerMaxAcceleration,
                       isqrt_upto(2 * PullerMaxJerk * Abs(gap),
                                  PullerMaxAcceleration)),
                   Abs(gap) \div dt)

\* section 4.3: LinearJerkSpeedController::update(target, t); the first
\* update has dt = 0 and passes the current smoothed value through
profile_step(c, a_star, dt) ==
    LET a_next == c.a + clamp(a_star - c.a, 0 - PullerMaxJerk * dt,
                              PullerMaxJerk * dt)
        v_next == clamp(c.v + a_next * dt, 0 - PullerMaxSpeed,
                        PullerMaxSpeed)
    IN  [c EXCEPT !.v = v_next, !.a = a_next]

profile_update(c, target, dt) ==
    IF ~IsSome(c.last)
    THEN [c EXCEPT !.last = Some(0)]
    ELSE CHOOSE next \in {profile_step(c, a_star, dt) :
                              a_star \in {target_acceleration(target - c.v,
                                                              dt)}} : TRUE

\* section 4.4: LinearStepConverter::velocity_to_angular_velocity, a linear
\* map; the model's puller has a circumference of one length unit
AngularPerLinear == 1
velocity_to_angular_velocity(speed) == speed * AngularPerLinear

\* PullerSpeedController::new(target_speed, target_diameter, converter)
PullerSpeedController_new(ts, td) ==
    /\ puller_enabled = FALSE
    /\ puller_target_speed = ts
    /\ puller_target_diameter = td
    /\ regulation_mode = "Speed"
    /\ forward = TRUE
    /\ acceleration_controller = LinearJerkSpeedController_new
    /\ last_speed = 0

\* calculate_speed_for_diameter: nominal flow over the cross section; a zero
\* area divides to +inf in f64
calculate_speed_for_diameter(d) ==
    IF d * d = 0 THEN F64_INFINITY ELSE NominalSpeedNumerator \div (d * d)

\* a mutant of update_speed: the target is followed while disabled too
selected_speed_while_disabled(en, mode, ts, td) ==
    IF mode = "Speed" THEN ts ELSE calculate_speed_for_diameter(td)

\* update_speed, the match on enabled and regulation_mode
selected_speed(en, mode, ts, td) ==
    IF en
    THEN IF mode = "Speed" THEN ts ELSE calculate_speed_for_diameter(td)
    ELSE 0

directed_always_forward(fwd, speed) == speed

\* update_speed: if self.forward { speed } else { -speed }
directed(fwd, speed) == IF fwd THEN speed ELSE 0 - speed

\* the velocity update_speed hands to the motion profile
desired_speed(en, mode, fwd, ts, td) ==
    directed(fwd, selected_speed(en, mode, ts, td))

PullerSetEnabled(en) ==
    /\ puller_enabled' = en
    /\ lastOp' = [op |-> "puller_set_enabled", arg |-> en]
    /\ UNCHANGED <<puller_target_speed, puller_target_diameter,
                   regulation_mode, forward, acceleration_controller,
                   last_speed>>

PullerSetTargetSpeed(ts) ==
    /\ puller_target_speed' = ts
    /\ lastOp' = [op |-> "puller_set_target_speed", arg |-> ts]
    /\ UNCHANGED <<puller_enabled, puller_target_diameter, regulation_mode,
                   forward, acceleration_controller, last_speed>>

PullerSetTargetDiameter(td) ==
    /\ puller_target_diameter' = td
    /\ lastOp' = [op |-> "puller_set_target_diameter", arg |-> td]
    /\ UNCHANGED <<puller_enabled, puller_target_speed, regulation_mode,
                   forward, acceleration_controller, last_speed>>

PullerSetRegulationMode(mode) ==
    /\ regulation_mode' = mode
    /\ lastOp' = [op |-> "puller_set_regulation_mode", arg |-> mode]
    /\ UNCHANGED <<puller_enabled, puller_target_speed,
                   puller_target_diameter, forward, acceleration_controller,
                   last_speed>>

PullerSetForward(fwd) ==
    /\ forward' = fwd
    /\ lastOp' = [op |-> "puller_set_forward", arg |-> fwd]
    /\ UNCHANGED <<puller_enabled, puller_target_speed,
                   puller_target_diameter, regulation_mode,
                   acceleration_controller, last_speed>>

\* calc_angular_velocity(t): update_speed(t), then the converter
CalcAngularVelocity ==
    \E speed \in {desired_speed(puller_enabled, regulation_mode, forward,
                                puller_target_speed, puller_target_diameter)} :
    \E c \in {profile_update(acceleration_controller, speed,
                             PullerTickSeconds)} :
        /\ acceleration_controller' = c
        /\ last_speed' = c.v
        /\ lastOp' = [op |-> "calc_angular_velocity",
                      handed |-> speed,
                      angular |-> velocity_to_angular_velocity(c.v)]
        /\ UNCHANGED <<puller_enabled, puller_target_speed,
                       puller_target_diameter, regulation_mode, forward>>

NextPuller ==
    \/ \E en \in BOOLEAN :
           PullerSetEnabled(en) /\ UNCHANGED <<trackerVars, regVars, historyVars>>
    \/ \E ts \in PullerTargetSpeeds :
           PullerSetTargetSpeed(ts) /\ UNCHANGED <<trackerVars, regVars, historyVars>>
    \/ \E td \in PullerTargetDiameters :
           PullerSetTargetDiameter(td) /\ UNCHANGED <<trackerVars, regVars, historyVars>>
    \/ \E mode \in PullerModes :
           PullerSetRegulationMode(mode) /\ UNCHANGED <<trackerVars, regVars, historyVars>>
    \/ \E fwd \in BOOLEAN :
           PullerSetForward(fwd) /\ UNCHANGED <<trackerVars, regVars, historyVars>>
    \/ CalcAngularVelocity /\ UNCHANGED <<trackerVars, regVars, historyVars>>

-----------------------------------------------------------------------------

(* Specifications *)

\* a laser machine, with a controller nothing is called on
Init ==
    /\ LaserMachine_new
    /\ DiameterController_new(175)
    /\ PullerSpeedController_new(0, 175)
    /\ NoHistory

\* a tracker on its own
InitTracker ==
    /\ TrackerNew
    /\ MachineIdle
    /\ DiameterController_new(175)
    /\ PullerSpeedController_new(0, 175)
    /\ NoHistory

\* a controller on its own
InitRegulator ==
    /\ MachineIdle
    /\ measurements = << >>
    /\ timeframe_duration = 0
    /\ TrackerFresh
    /\ \E d \in RegTargets : DiameterController_new(d)
    /\ PullerSpeedController_new(0, 175)
    /\ NoHistory

SpecTracker == InitTracker /\ [][NextTracker]_vars

SpecLaser == Init /\ [][NextLaser]_vars

SpecRegulator == InitRegulator /\ [][NextRegulator]_vars

-----------------------------------------------------------------------------
(* Properties of the DiameterTracker, under SpecTracker *)

Diameters(ms) == {ms[i].diameter : i \in 1..Len(ms)}
Timestamps(ms) == {ms[i].timestamp : i \in 1..Len(ms)}

\* C1: when the add_measurement calls so far had non-decreasing timestamps
\* (whatever set_timeframe calls came between them), every sample retained
\* right after add_measurement(d, t) is at most the current window older
\* than t.
C1_RetainedWithinWindow ==
    (lastOp.op = "add_measurement" /\ in_order) =>
        \A i \in 1..Len(measurements) :
            lastOp.timestamp - measurements[i].timestamp <= timeframe_duration

\* C1 happens: an in-order insertion evicted two samples and kept one that
\* lies exactly on the boundary of a non-zero window.
C1_Witness ==
    /\ lastOp.op = "add_measurement"
    /\ in_order
    /\ Len(evicted) >= 2
    /\ timeframe_duration > 0
    /\ \E i \in 1..Len(measurements) :
          lastOp.timestamp - measurements[i].timestamp = timeframe_duration

\* C2: get_min_max is (None, None) exactly for an empty tracker, and
\* otherwise the smallest and the largest diameter among the retained
\* samples, each the diameter of a retained sample, with min <= max.
C2_MinMaxOfRetained ==
    LET r == get_min_max(measurements)
        D == Diameters(measurements)
    IN  /\ (r = <<None, None>>) <=> (measurements = << >>)
        /\ measurements # << >> =>
              /\ IsSome(r[1]) /\ IsSome(r[2])
              /\ Unwrap(r[1]) \in D /\ Unwrap(r[2]) \in D
              /\ \A d \in D : Unwrap(r[1]) <= d /\ d <= Unwrap(r[2])
              /\ Unwrap(r[1]) <= Unwrap(r[2])

\* C2 happens: the tracker holds samples of different diameters after an
\* eviction took away a sample smaller than all of them.
C2_Witness ==
    /\ Len(measurements) >= 2
    /\ evicted # << >>
    /\ Unwrap(get_min_max(measurements)[1]) < Unwrap(get_min_max(measurements)[2])
    /\ \E i \in 1..Len(evicted) :
          evicted[i].diameter < Unwrap(get_min_max(measurements)[1])

-----------------------------------------------------------------------------
(* Properties of the LaserMachine, under SpecLaser *)

\* C3: of the State events published, exactly one carries
\* is_default_state = true, and it is the first one, which the constructor
\* emits; every later State event carries false.
C3_DefaultStateOnce ==
    /\ default_events = 1
    /\ \A i \in 1..Len(emitted) :
          emitted[i].type = "State" =>
              (emitted[i].is_default_state <=> lastOp.op = "new")

\* C3 happens: a setter published a third or later State event.
C3_Witness ==
    /\ state_events >= 3
    /\ lastOp.op = "set_target_diameter"
    /\ emitted # << >>
    /\ emitted[1].type = "State"
    /\ ~emitted[1].is_default_state

\* C4: an update whose reading is greater than 0 appends exactly one sample
\* with that diameter (the tracker keeps a suffix of the old samples followed
\* by it); an update with no reading or with a reading of 0 leaves the
\* retained samples as they were.
C4_UpdateStoresIffPositive ==
    [][lastOp'.op = "update" =>
        IF diameter' > 0
        THEN LET full == Append(measurements,
                                [diameter |-> diameter', timestamp |-> now'])
             IN  \E k \in 0..Len(measurements) :
                    measurements' = SubSeq(full, k + 1, Len(full))
        ELSE measurements' = measurements]_vars

\* C4 happens: an update with a reading of 0 met a tracker that holds samples.
C4_Witness ==
    /\ lastOp.op = "update"
    /\ lastOp.present
    /\ diameter = 0
    /\ measurements # << >>

\* C5 as claimed: after an update the roundness is present exactly when both
\* axis diameters are present.
C5_Claimed ==
    lastOp.op = "update" =>
        (IsSome(roundness) <=> (IsSome(x_diameter) /\ IsSome(y_diameter)))

\* C5 amended: after an update the roundness is present exactly when both
\* axis diameters are present and either both are greater than 0 or both
\* are 0.
C5_RoundnessPresence ==
    lastOp.op = "update" =>
        (IsSome(roundness) <=>
            /\ IsSome(x_diameter) /\ IsSome(y_diameter)
            /\ \/ Unwrap(x_diameter) > 0 /\ Unwrap(y_diameter) > 0
               \/ Unwrap(x_diameter) = 0 /\ Unwrap(y_diameter) = 0)

\* C5 happens: an update cached one axis of 0 and one positive axis.
C5_Witness ==
    /\ lastOp.op = "update"
    /\ x_diameter = Some(0)
    /\ IsSome(y_diameter) /\ Unwrap(y_diameter) > 0
    /\ roundness = None

\* C6: a present roundness is a ratio in [0, 1]; it is min / max of the
\* cached axis diameters when both are greater than 0, and 0 when both are
\* 0: the roundness always belongs to the axis diameters cached with it.
C6_RoundnessValue ==
    /\ IsSome(roundness) =>
          /\ Unwrap(roundness)[2] > 0
          /\ 0 <= Unwrap(roundness)[1]
          /\ Unwrap(roundness)[1] <= Unwrap(roundness)[2]
          /\ IsSome(x_diameter) /\ IsSome(y_diameter)
    /\ (IsSome(x_diameter) /\ IsSome(y_diameter)) =>
          LET x == Unwrap(x_diameter)
              y == Unwrap(y_diameter)
          IN  /\ (x > 0 /\ y > 0) =>
                    /\ IsSome(roundness)
                    /\ Unwrap(roundness)[1] * Max(x, y)
                          = Unwrap(roundness)[2] * Min(x, y)
              /\ (x = 0 /\ y = 0) =>
                    /\ IsSome(roundness)
                    /\ Unwrap(roundness)[1] = 0

\* C6 happens: an update cached two different positive axes, the larger
\* one on x, after an earlier update had cached another roundness.
C6_Witness ==
    /\ lastOp.op = "update"
    /\ IsSome(x_diameter) /\ IsSome(y_diameter)
    /\ Unwrap(x_diameter) > Unwrap(y_diameter)
    /\ Unwrap(y_diameter) > 0
    /\ roundness = Some(<<Unwrap(y_diameter), Unwrap(x_diameter)>>)

-----------------------------------------------------------------------------
(* The DiameterController *)

\* the all-zero output record: no adjustment, no error, no rate, no factor
AllZero(o) ==
    /\ o.winder_speed_adjustment = 0
    /\ o.extruder_rpm_adjustment = 0
    /\ o.diameter_error = 0
    /\ o.volume_error = 0
    /\ o.current_volume_rate = 0
    /\ o.target_volume_rate = 0
    /\ o.process_speed_factor = 0

\* the last call was an update that found the controller enabled
EnabledUpdate == lastOp.op = "update" /\ lastOp.enabled

\* both errors of the update that just returned are zero
ZeroErrors ==
    /\ current_diameter = target_diameter
    /\ current_volume_rate = target_volume_rate

\* the update that just returned asks for no adjustment
ZeroAdjustments ==
    /\ Unwrap(output).winder_speed_adjustment = 0
    /\ Unwrap(output).extruder_rpm_adjustment = 0

\* C7: the speed scale factor starts at 1.0 and is in [0.5, 2.0] in every
\* state; set_speed_scale_factor(x) stores x clamped to [0.5, 2.0], and no
\* other operation changes the factor.
C7_SpeedScaleClamped ==
    /\ speed_scale_factor = 10
    /\ [](speed_scale_factor >= 5 /\ speed_scale_factor <= 20)
    /\ [][IF lastOp'.op = "set_speed_scale_factor"
          THEN LET x == lastOp'.arg
               IN  /\ (5 <= x /\ x <= 20) => speed_scale_factor' = x
                   /\ x < 5 => speed_scale_factor' = 5
                   /\ x > 20 => speed_scale_factor' = 20
          ELSE speed_scale_factor' = speed_scale_factor]_vars

\* C7 witness: set_speed_scale_factor(2.5) was called after the factor was
\* lowered, and the factor is 2.0
C7_Witness ==
    /\ lastOp.op = "set_speed_scale_factor"
    /\ lastOp.arg = 25
    /\ speed_scale_factor = 20
    /\ clock > 0

\* C8: an update of a controller that is not enabled returns the all-zero
\* record and leaves last_update, both PIDs, current_volume_rate and
\* target_volume_rate as they were.
C8_DisabledUpdateIsInert ==
    [][(lastOp'.op = "update" /\ ~enabled)
       => /\ IsSome(output')
          /\ AllZero(Unwrap(output'))
          /\ UNCHANGED <<last_update, diameter_pid, volume_pid,
                         current_volume_rate, target_volume_rate>>]_vars

\* C8 witness: a disabled update has returned in a controller whose
\* last_update and rates carry the marks of earlier enabled updates
C8_Witness ==
    /\ lastOp.op = "update"
    /\ ~lastOp.enabled
    /\ IsSome(last_update)
    /\ current_volume_rate > 0
    /\ target_volume_rate > 0
    /\ AllZero(Unwrap(output))

\* C9: after set_enabled(false), whatever errors earlier enabled updates were
\* fed, the first enabled update that follows returns no winder and no
\* extruder adjustment when both of its errors are zero.
C9_DisableResetsPids ==
    (EnabledUpdate /\ lastOp.since_disable /\ ZeroErrors) => ZeroAdjustments

\* C9 witness: non-zero errors were fed, the controller was disabled and
\* enabled again, and an update of a moving line with zero errors returned
\* no adjustment
C9_Witness ==
    /\ EnabledUpdate
    /\ lastOp.since_disable
    /\ lastOp.fed
    /\ lastOp.speed > 0
    /\ ZeroErrors
    /\ ZeroAdjustments

\* C10 as claimed: every enabled update with zero diameter error and zero
\* volume error returns no winder and no extruder adjustment, whatever the
\* earlier updates were fed.
C10_Claimed ==
    (EnabledUpdate /\ ZeroErrors) => ZeroAdjustments

\* C10: an enabled update with zero diameter error and zero volume error
\* returns no winder and no extruder adjustment when both PIDs hold no
\* integral and no last error (as reset leaves them), under each strategy.
C10_ZeroErrorsZeroAdjustments ==
    (EnabledUpdate /\ lastOp.was_clear /\ ZeroErrors) => ZeroAdjustments

\* C10 witness: after updates with non-zero errors, an update of a moving
\* line, its PIDs clear and its errors zero, returned no adjustment under
\* the balanced strategy
C10_Witness ==
    /\ EnabledUpdate
    /\ lastOp.was_clear
    /\ lastOp.fed
    /\ lastOp.speed > 0
    /\ strategy = "Balanced"
    /\ target_volume_rate > 0
    /\ ZeroErrors
    /\ ZeroAdjustments

\* C11: in every enabled update, WinderOnly returns extruder adjustment 0 and
\* ExtruderOnly returns winder adjustment 0; Balanced maps 0.6 of the
\* diameter correction and 0.4 of the volume correction to the adjustments,
\* SpeedPrioritized 0.2 and 0.8 (compared in tenths with the adjustments the
\* whole corrections give).
C11_StrategyMix ==
    [][(lastOp'.op = "update" /\ enabled) =>
         LET t == clock'
             v == lastOp'.speed
             u_d == pid_signal(diameter_pid,
                               target_diameter - current_diameter, t)
             u_Q == pid_signal(volume_pid,
                               target_volume_rate' - current_volume_rate', t)
             whole_v == apply_filter(calculate_winder_adjustment(u_d, v),
                                     speed_filter_alpha)
             whole_w == apply_filter(calculate_extruder_adjustment(u_Q),
                                     volume_filter_alpha)
             dv == Unwrap(output').winder_speed_adjustment
             dw == Unwrap(output').extruder_rpm_adjustment
         IN  /\ strategy = "WinderOnly" => (dw = 0 /\ dv = 10 * whole_v)
             /\ strategy = "ExtruderOnly" => (dv = 0 /\ dw = 10 * whole_w)
             /\ strategy = "Balanced" => (dv = 6 * whole_v /\ dw = 4 * whole_w)
             /\ strategy = "SpeedPrioritized" =>
                    (dv = 2 * whole_v /\ dw = 8 * whole_w)]_vars

\* C11 witness: after earlier non-zero errors, an update under WinderOnly with
\* a volume error returned a winder adjustment and no extruder adjustment
C11_Witness ==
    /\ EnabledUpdate
    /\ lastOp.fed
    /\ strategy = "WinderOnly"
    /\ current_volume_rate # target_volume_rate
    /\ Unwrap(output).winder_speed_adjustment # 0
    /\ Unwrap(output).extruder_rpm_adjustment = 0

\* C12: in every enabled update of a line moving forward, under WinderOnly,
\* Balanced and SpeedPrioritized a positive output of the diameter PID gives
\* a winder adjustment below 0 and a negative output one above 0; under
\* ExtruderOnly, Balanced and SpeedPrioritized a positive output of the
\* volume PID gives an extruder adjustment above 0.
C12_SignConvention ==
    [][(lastOp'.op = "update" /\ enabled) =>
         LET t == clock'
             u_d == pid_signal(diameter_pid,
                               target_diameter - current_diameter, t)
             u_Q == pid_signal(volume_pid,
                               target_volume_rate' - current_volume_rate', t)
             dv == Unwrap(output').winder_speed_adjustment
             dw == Unwrap(output').extruder_rpm_adjustment
         IN  /\ (strategy # "ExtruderOnly" /\ lastOp'.speed > 0) =>
                    /\ u_d > 0 => dv < 0
                    /\ u_d < 0 => dv > 0
             /\ strategy # "WinderOnly" => (u_Q > 0 => dw > 0)]_vars

\* C12 witness: a balanced update of a moving line with the measured diameter
\* below the target slowed the puller and pushed the extruder
C12_Witness ==
    /\ EnabledUpdate
    /\ lastOp.was_clear
    /\ lastOp.speed > 0
    /\ strategy = "Balanced"
    /\ current_diameter < target_diameter
    /\ current_volume_rate < target_volume_rate
    /\ Unwrap(output).winder_speed_adjustment < 0
    /\ Unwrap(output).extruder_rpm_adjustment > 0

-----------------------------------------------------------------------------
(* The tolerance predicates of the DiameterController on their own *)

\* target and measured diameters around 1.75 mm, 0.07 mm to either side
ToleranceDiameters == 168 .. 182

\* no laser machine and no tracker run beside the controller
NoLaser ==
    /\ MachineIdle
    /\ measurements = << >>
    /\ timeframe_duration = 0
    /\ TrackerFresh

\* is_diameter_in_tolerance() and is_diameter_in_tight_tolerance() are called;
\* neither changes the controller
RegCheckTolerance ==
    /\ output' = Some([is_in_tolerance |->
                           is_diameter_in_tolerance(current_diameter,
                                                    target_diameter),
                       is_in_tight_tolerance |->
                           is_diameter_in_tight_tolerance(current_diameter,
                                                          target_diameter)])
    /\ lastOp' = [op |-> "check_tolerance"]
    /\ UNCHANGED <<diameter_pid, volume_pid, target_diameter, current_diameter,
                   target_volume_rate, current_volume_rate, strategy, enabled,
                   speed_scale_factor, last_update, clock, fed, since_disable>>

InitTolerance ==
    /\ NoLaser
    /\ \E d \in ToleranceDiameters : DiameterController_new(d)
    /\ PullerSpeedController_new(0, 175)
    /\ NoHistory

NextTolerance ==
    \/ \E d \in ToleranceDiameters :
          RegSetTargetDiameter(d) /\ UNCHANGED <<trackerVars, pullerVars, historyVars>>
    \/ \E d \in ToleranceDiameters :
          RegSetCurrentDiameter(d) /\ UNCHANGED <<trackerVars, pullerVars, historyVars>>
    \/ RegCheckTolerance /\ UNCHANGED <<trackerVars, pullerVars, historyVars>>

SpecTolerance == InitTolerance /\ [][NextTolerance]_vars

\* C13: is_diameter_in_tolerance holds exactly when the measured diameter is
\* within 0.05 mm of the target and is_diameter_in_tight_tolerance exactly
\* when it is within 0.02 mm, both bounds included and to either side; a
\* diameter in tight tolerance is in tolerance.
C13_TolerancePredicates ==
    lastOp.op = "check_tolerance" =>
        LET off == current_diameter - target_diameter
            o == Unwrap(output)
        IN  /\ o.is_in_tolerance <=> (off >= -5 /\ off <= 5)
            /\ o.is_in_tight_tolerance <=> (off >= -2 /\ off <= 2)
            /\ o.is_in_tight_tolerance => o.is_in_tolerance

\* C13 witness: a diameter 0.05 mm below the target is in tolerance and not in
\* tight tolerance
C13_Witness ==
    /\ lastOp.op = "check_tolerance"
    /\ target_diameter - current_diameter = 5
    /\ Unwrap(output).is_in_tolerance
    /\ ~Unwrap(output).is_in_tight_tolerance

-----------------------------------------------------------------------------
(* The setters of the LaserMachine *)

\* the laser_state of a State event that carries `target`
laser_state_of(target) ==
    [higher_tolerance |-> target.higher_tolerance,
     lower_tolerance |-> target.lower_tolerance,
     target_diameter |-> target.diameter,
     min_max_timeframe_minutes |-> target.min_max_timeframe_minutes]

\* the step published one State event, and its laser_state is `expected`
PublishedOneState(expected) ==
    /\ Len(emitted') = 1
    /\ emitted'[1].type = "State"
    /\ emitted'[1].laser_state = laser_state_of(expected)

\* C14: each call of set_higher_tolerance, set_lower_tolerance,
\* set_target_diameter and set_min_max_timeframe publishes exactly one State
\* event; the event carries the value just set in its field and the values
\* the other three fields had before the call.
C14_SetterPublishesState ==
    [][/\ lastOp'.op = "set_higher_tolerance" =>
            PublishedOneState(
                [laser_target EXCEPT !.higher_tolerance = lastOp'.arg])
       /\ lastOp'.op = "set_lower_tolerance" =>
            PublishedOneState(
                [laser_target EXCEPT !.lower_tolerance = lastOp'.arg])
       /\ lastOp'.op = "set_target_diameter" =>
            PublishedOneState(
                [laser_target EXCEPT !.diameter = lastOp'.arg])
       /\ lastOp'.op = "set_min_max_timeframe" =>
            PublishedOneState(
                [laser_target EXCEPT
                    !.min_max_timeframe_minutes = lastOp'.arg])]_vars

\* C14 witness: set_higher_tolerance(0.02) published a State event that
\* carries 0.02 beside a lower tolerance, a target and a timeframe set by
\* earlier calls
C14_Witness ==
    /\ lastOp.op = "set_higher_tolerance"
    /\ lastOp.arg = 2
    /\ Len(emitted) = 1
    /\ emitted[1].type = "State"
    /\ emitted[1].laser_state.higher_tolerance = 2
    /\ emitted[1].laser_state.lower_tolerance # 2
    /\ emitted[1].laser_state.target_diameter = 285
    /\ emitted[1].laser_state.min_max_timeframe_minutes = 1

-----------------------------------------------------------------------------
(* Samples that arrive out of order *)

\* the retained samples are in non-decreasing timestamp order
InTimestampOrder(ms) ==
    \A i \in 1..Len(ms) : \A j \in i..Len(ms) :
        ms[i].timestamp <= ms[j].timestamp

\* C15 as claimed: add_measurement(d, t) with t earlier than the timestamp of
\* the newest retained sample leaves the retained samples unchanged, and the
\* retained samples are in non-decreasing timestamp order in every state.
C15_Claimed ==
    /\ [](InTimestampOrder(measurements))
    /\ [][(/\ lastOp'.op = "add_measurement"
           /\ measurements # << >>
           /\ lastOp'.timestamp < measurements[Len(measurements)].timestamp)
          => measurements' = measurements]_vars

-----------------------------------------------------------------------------
(* Sensor dropouts *)

\* C16 as claimed: an update whose laser read is absent or reports diameter 0
\* leaves the cached diameter, x_diameter, y_diameter and roundness as they
\* were, so that the next LiveValues event repeats the last good reading.
C16_Claimed ==
    [][(lastOp'.op = "update" /\ lastOp'.dropout)
       => UNCHANGED <<diameter, x_diameter, y_diameter, roundness>>]_vars

-----------------------------------------------------------------------------
(* Setters called with a negative value *)

\* C17 as claimed: set_higher_tolerance, set_lower_tolerance and
\* set_target_diameter called with a negative value leave the LaserTarget
\* unchanged and publish no State event, and the target diameter and the two
\* tolerances are non-negative in every state.
C17_Claimed ==
    /\ [](/\ laser_target.diameter >= 0
          /\ laser_target.lower_tolerance >= 0
          /\ laser_target.higher_tolerance >= 0)
    /\ [][(/\ lastOp'.op \in {"set_higher_tolerance", "set_lower_tolerance",
                              "set_target_diameter"}
           /\ lastOp'.arg < 0)
          => (laser_target' = laser_target /\ emitted' = << >>)]_vars

-----------------------------------------------------------------------------
(* f64 arithmetic, bit for bit.  A natural number is a sequence of limbs,   *)
(* least significant first, without leading zero limbs; an f64 is a record  *)
(* [m, e] that stands for m * 2^e with a significand m of 53 bits (the      *)
(* empty sequence for 0.0).  Results are rounded to the nearest f64, ties   *)
(* to even, as IEEE 754 does.  Exponents stay in the normal range for the   *)
(* values used.                                                              *)

\* the bits and the base of a limb, 2^15
LimbBits == 15
LimbBase == 32768
\* the bits of an f64 significand
F64Bits == 53
\* guard bits taken before a division, so that the quotient has bits to round
GuardBits == 8

RECURSIVE BigFromNat(_)
BigFromNat(n) ==
    IF n = 0 THEN << >>
    ELSE <<n % LimbBase>> \o BigFromNat(n \div LimbBase)

RECURSIVE BigNorm(_)
BigNorm(a) ==
    IF a = << >> THEN a
    ELSE IF a[Len(a)] = 0 THEN BigNorm(SubSeq(a, 1, Len(a) - 1))
    ELSE a

\* a * k + carry, for k and carry below the limb base
RECURSIVE BigMulSmall(_, _, _)
BigMulSmall(a, k, carry) ==
    IF a = << >> THEN BigFromNat(carry)
    ELSE LET p == Head(a) * k + carry
         IN  <<p % LimbBase>> \o BigMulSmall(Tail(a), k, p \div LimbBase)

\* <<a div k, a mod k>>, for k below the limb base
RECURSIVE BigDivSmallRaw(_, _)
BigDivSmallRaw(a, k) ==
    IF a = << >> THEN << << >>, 0 >>
    ELSE LET hi == BigDivSmallRaw(Tail(a), k)
             cur == hi[2] * LimbBase + Head(a)
         IN  << <<cur \div k>> \o hi[1], cur % k >>

BigDivSmall(a, k) ==
    << BigNorm(BigDivSmallRaw(a, k)[1]), BigDivSmallRaw(a, k)[2] >>

RECURSIVE BigAddSmall(_, _)
BigAddSmall(a, k) ==
    IF k = 0 THEN a
    ELSE IF a = << >> THEN <<k>>
    ELSE LET s == Head(a) + k
         IN  <<s % LimbBase>> \o BigAddSmall(Tail(a), s \div LimbBase)

RECURSIVE BitsOfLimb(_)
BitsOfLimb(n) == IF n = 0 THEN 0 ELSE 1 + BitsOfLimb(n \div 2)

\* the number of bits of a
BigBits(a) ==
    IF a = << >> THEN 0
    ELSE LimbBits * (Len(a) - 1) + BitsOfLimb(a[Len(a)])

BigOdd(a) == a # << >> /\ Head(a) % 2 = 1

RECURSIVE Pow2(_)
Pow2(d) == IF d = 0 THEN 1 ELSE 2 * Pow2(d - 1)

\* a * 2^d: whole limbs of zeros below, then a product with less than a limb
RECURSIVE BigShiftLeft(_, _)
BigShiftLeft(a, d) ==
    IF a = << >> THEN a
    ELSE IF d >= LimbBits THEN <<0>> \o BigShiftLeft(a, d - LimbBits)
    ELSE BigMulSmall(a, Pow2(d), 0)

\* a shifted right by d bits: <<a div 2^d, the last bit shifted out, whether
\* a bit shifted out before it (or `sticky`) was set>>
RECURSIVE BigShiftRight(_, _, _, _)
BigShiftRight(a, d, round_bit, sticky) ==
    IF d = 0 THEN <<a, round_bit, sticky>>
    ELSE BigShiftRight(BigDivSmall(a, 2)[1], d - 1, BigDivSmall(a, 2)[2],
                       sticky \/ round_bit = 1)

F64Zero == [m |-> << >>, e |-> 0]

\* the f64 nearest to (n + f) * 2^e, where 0 <= f < 1 and f > 0 iff `sticky`
\* (with `sticky`, n has more than 53 bits); ties go to the even significand
F64Round(n, e, sticky) ==
    IF n = << >> THEN F64Zero
    ELSE IF BigBits(n) <= F64Bits
    THEN [m |-> BigShiftLeft(n, F64Bits - BigBits(n)),
          e |-> e - (F64Bits - BigBits(n))]
    ELSE LET d == BigBits(n) - F64Bits
             s == BigShiftRight(n, d, 0, sticky)
             up == s[2] = 1 /\ (s[3] \/ BigOdd(s[1]))
             r == IF up THEN BigAddSmall(s[1], 1) ELSE s[1]
         IN  IF BigBits(r) > F64Bits
             THEN [m |-> BigDivSmall(r, 2)[1], e |-> e + d + 1]
             ELSE [m |-> r, e |-> e + d]

\* the f64 of a natural number below 2^53
F64FromNat(n) == F64Round(BigFromNat(n), 0, FALSE)

\* x * k in f64, for a natural k below the limb base
F64MulNat(x, k) == F64Round(BigMulSmall(x.m, k, 0), x.e, FALSE)

\* x / k in f64, for a natural k below 2^(GuardBits - 2)
F64DivNat(x, k) ==
    LET qr == BigDivSmall(BigShiftLeft(x.m, GuardBits), k)
    IN  F64Round(qr[1], x.e - GuardBits, qr[2] # 0)

\* x * 2^p in f64: exact
F64Scale(x, p) == IF x.m = << >> THEN x ELSE [x EXCEPT !.e = @ + p]

\* a and b are the same f64 or neighbours: significands at most 1 apart
F64Near(a, b) ==
    \/ a = b
    \/ /\ a.m # << >> /\ b.m # << >>
       /\ a.e = b.e
       /\ (BigAddSmall(a.m, 1) = b.m \/ BigAddSmall(b.m, 1) = a.m)

-----------------------------------------------------------------------------
(* The screw speed and the volume rate, in f64 *)

\* 60.0, the seconds of a minute
SixtySeconds == 60
\* SCREW_DISPLACEMENT_PER_REV = 0.5 = 2^-1
ScrewDisplacementExponent == -1

\* a mutant of calculate_required_rpm: the division by the displacement is
\* left out
required_rpm_f64_undivided(volume_cm3_per_s) ==
    F64MulNat(volume_cm3_per_s, SixtySeconds)

\* calculate_volume_rate_from_rpm on the f64 rpm:
\* rpm * SCREW_DISPLACEMENT_PER_REV / 60.0
volume_rate_from_rpm_f64(rpm) ==
    F64DivNat(F64Scale(rpm, ScrewDisplacementExponent), SixtySeconds)

\* calculate_required_rpm on the f64 volume rate:
\* volume_cm3_per_s * 60.0 / SCREW_DISPLACEMENT_PER_REV
required_rpm_f64(volume_cm3_per_s) ==
    F64Scale(F64MulNat(volume_cm3_per_s, SixtySeconds),
             0 - ScrewDisplacementExponent)

\* whole screw speeds, in rev/min
ScrewRpms == 0 .. MaxRpm

\* calculate_volume_rate_from_rpm(w) is called; it takes &self and changes
\* nothing
ScrewVolumeRateFromRpm(w) ==
    /\ lastOp' = [op |-> "calculate_volume_rate_from_rpm", rpm |-> w,
                  volume_rate |-> volume_rate_from_rpm_f64(F64FromNat(w))]
    /\ UNCHANGED <<regVars, trackerVars, pullerVars, historyVars>>

\* calculate_required_rpm is called on the volume rate just returned; it takes
\* &self and changes nothing
ScrewRequiredRpm ==
    /\ lastOp.op = "calculate_volume_rate_from_rpm"
    /\ lastOp' = [op |-> "calculate_required_rpm", rpm |-> lastOp.rpm,
                  volume_rate |-> lastOp.volume_rate,
                  required_rpm |-> required_rpm_f64(lastOp.volume_rate)]
    /\ UNCHANGED <<regVars, trackerVars, pullerVars, historyVars>>

InitScrew ==
    /\ NoLaser
    /\ DiameterController_new(175)
    /\ PullerSpeedController_new(0, 175)
    /\ NoHistory

NextScrew ==
    \/ \E w \in ScrewRpms : ScrewVolumeRateFromRpm(w)
    \/ ScrewRequiredRpm

SpecScrew == InitScrew /\ [][NextScrew]_vars

-----------------------------------------------------------------------------
(* Puller speed controller on its own *)

InitPuller ==
    /\ NoLaser
    /\ DiameterController_new(175)
    /\ \E ts \in PullerTargetSpeeds, td \in PullerTargetDiameters :
           PullerSpeedController_new(ts, td)
    /\ NoHistory

SpecPuller == InitPuller /\ [][NextPuller]_vars

\* The velocity the table of section 4.5 prescribes for the five fields.
TableSpeed(en, mode, fwd, ts, td) ==
    IF ~en THEN 0
    ELSE IF mode = "Speed"
         THEN (IF fwd THEN ts ELSE 0 - ts)
         ELSE (IF fwd THEN calculate_speed_for_diameter(td)
                      ELSE 0 - calculate_speed_for_diameter(td))

\* C19: on every tick of the puller controller the velocity handed to the
\* motion profile is the one the table gives for the fields (enabled,
\* regulation_mode, forward, target_speed, target_diameter) as they are at
\* that tick: 0 when disabled, target_speed in Speed mode, the velocity
\* derived from target_diameter in Diameter mode, negated when forward is
\* false.  The tick leaves the five fields alone, and a setter changes only
\* its own field and hands nothing to the profile, so a change made between
\* two ticks is the value the next tick uses.
C19_HandedVelocity ==
    [][/\ lastOp'.op = "calc_angular_velocity" =>
            /\ lastOp'.handed = TableSpeed(puller_enabled, regulation_mode,
                                           forward, puller_target_speed,
                                           puller_target_diameter)
            /\ UNCHANGED <<puller_enabled, regulation_mode, forward,
                           puller_target_speed, puller_target_diameter>>
       /\ lastOp'.op # "calc_angular_velocity" =>
            UNCHANGED <<acceleration_controller, last_speed>>]_vars

\* A backward tick in Diameter mode right after the target diameter was
\* changed: the profile is handed the negated velocity of the new diameter.
C19_Witness ==
    /\ lastOp.op = "calc_angular_velocity"
    /\ puller_enabled
    /\ regulation_mode = "Diameter"
    /\ ~forward
    /\ puller_target_diameter = 350
    /\ lastOp.handed = 0 - calculate_speed_for_diameter(350)
    /\ lastOp.handed < 0
    /\ last_speed < 0

-----------------------------------------------------------------------------
(* set_timeframe against the newest retained sample *)

\* the samples of ms no older than w seconds before the newest one
WithinOfNewest(ms, w) ==
    SelectSeq(ms, LAMBDA s : ms[Len(ms)].timestamp - s.timestamp <= w)

\* The diameters play no part in the eviction: one diameter, every instant.
TimeframeDiameters == {175}

\* the instants of the tracker's calls; their differences fall on, inside and
\* outside the windows of TimeframeMinutes
TimeframeInstants == {0, 10, 30, 60, 61, 121}

NextTimeframe ==
    \/ \E d \in TimeframeDiameters, t \in TimeframeInstants :
           TrackerAddMeasurement(d, t) /\ UNCHANGED <<regVars, pullerVars, historyVars>>
    \/ \E m \in TimeframeMinutes :
           TrackerSetTimeframe(m) /\ UNCHANGED <<regVars, pullerVars, historyVars>>

SpecTimeframe == InitTracker /\ [][NextTimeframe]_vars

\* C20: set_timeframe(w) evicts relative to the newest retained sample.  On a
\* tracker whose retained samples are in non-decreasing timestamp order, the
\* samples retained after set_timeframe(w) are exactly the previously
\* retained samples s with newest.timestamp - s.timestamp <= w (w in
\* seconds); the newest sample is kept, so a non-empty tracker stays
\* non-empty; a window at least as long as the previous one removes nothing;
\* and an empty tracker stays empty.  The wall clock `now` plays no part.
C20_SetTimeframeExact ==
    [][(lastOp'.op = "set_timeframe" /\ InTimestampOrder(measurements)) =>
          LET w == timeframe_secs(lastOp'.timeframe_minutes)
          IN  /\ timeframe_duration' = w
              /\ measurements = << >> => measurements' = << >>
              /\ measurements # << >> =>
                    /\ measurements' = WithinOfNewest(measurements, w)
                    /\ measurements' # << >>
                    /\ measurements'[Len(measurements')] =
                           measurements[Len(measurements)]
              /\ w >= timeframe_duration => measurements' = measurements]_vars

\* set_timeframe shortened the window: it evicted the oldest sample and kept
\* one that lies exactly on the new boundary, and the newest.
C20_Witness ==
    /\ lastOp.op = "set_timeframe"
    /\ in_order
    /\ evicted # << >>
    /\ Len(measurements) = 2
    /\ measurements[2].timestamp - measurements[1].timestamp
           = timeframe_duration
    /\ timeframe_duration > 0

-----------------------------------------------------------------------------
(* Eviction on insert *)

\* the samples of ms with a timestamp of at least cutoff
NotBefore(ms, cutoff) == SelectSeq(ms, LAMBDA s : s.timestamp >= cutoff)

\* C21: eviction on insert is exact.  When the retained samples are in
\* non-decreasing timestamp order and add_measurement(d, t) is called with t
\* no earlier than the newest of them, the samples retained afterwards are
\* exactly the previously retained samples with timestamp >= t - window,
\* followed by the new sample; the window is left as it was.  A sample with
\* t - timestamp = window is therefore retained, one with
\* t - timestamp > window evicted.
C21_InsertEvictsExactly ==
    [][(/\ lastOp'.op = "add_measurement"
        /\ InTimestampOrder(measurements)
        /\ measurements # << >> =>
               lastOp'.timestamp >= measurements[Len(measurements)].timestamp)
       => /\ measurements' =
                 Append(NotBefore(measurements,
                                  lastOp'.timestamp - timeframe_duration),
                        [diameter |-> lastOp'.diameter,
                         timestamp |-> lastOp'.timestamp])
          /\ timeframe_duration' = timeframe_duration]_vars

\* Window 60 s, inserts at 0, 10, 30 and 61 s: the sample of 0 s is evicted
\* by the fourth insert, those of 10, 30 and 61 s are retained.
C21_Witness ==
    /\ lastOp.op = "add_measurement"
    /\ lastOp.timestamp = 61
    /\ timeframe_duration = 60
    /\ Len(measurements) = 3
    /\ measurements[1].timestamp = 10
    /\ measurements[2].timestamp = 30
    /\ measurements[3].timestamp = 61
    /\ Len(evicted) = 1
    /\ evicted[1].timestamp = 0

-----------------------------------------------------------------------------
(* Retention order: the tracker with the record of its inserts *)

\* add_measurement calls recorded by SpecHistory
MaxInserts == 4

\* DiameterTracker::add_measurement, the sample recorded
HistoryAddMeasurement(d, timestamp) ==
    /\ Len(inserted) < MaxInserts
    /\ TrackerAddMeasurement(d, timestamp)
    /\ inserted' = Append(inserted,
                          [diameter |-> d, timestamp |-> timestamp])

\* DiameterTracker::set_timeframe
HistorySetTimeframe(timeframe_minutes) ==
    /\ TrackerSetTimeframe(timeframe_minutes)
    /\ UNCHANGED inserted

NextHistory ==
    \/ \E d \in TimeframeDiameters, t \in TimeframeInstants :
           HistoryAddMeasurement(d, t) /\ UNCHANGED <<regVars, pullerVars>>
    \/ \E m \in TimeframeMinutes :
           HistorySetTimeframe(m) /\ UNCHANGED <<regVars, pullerVars>>

SpecHistory == InitTracker /\ [][NextHistory]_vars

\* the last n elements of s
Suffix(s, n) == SubSeq(s, Len(s) - n + 1, Len(s))

\* C22: after any sequence of add_measurement and set_timeframe calls, in
\* timestamp order or not, the retained samples are the last
\* Len(measurements) samples add_measurement was called with, in call
\* order; and a step only ever removes samples from the front: what is
\* retained after a step is a suffix of what was retained before, followed
\* by the sample of the step if it is an add_measurement.
C22_RetainedIsSuffix ==
    /\ [](/\ Len(measurements) <= Len(inserted)
          /\ measurements = Suffix(inserted, Len(measurements)))
    /\ [][LET n == Len(measurements')
              old == IF lastOp'.op = "add_measurement" /\ inserted' # inserted
                     THEN n - 1 ELSE n
          IN  /\ old <= Len(measurements)
              /\ old >= 0 => SubSeq(measurements', 1, old) =
                                 Suffix(measurements, old)]_vars

\* Samples were inserted out of timestamp order, one was evicted from the
\* front, and two that are not in timestamp order remain, in call order.
C22_Witness ==
    /\ Len(inserted) = MaxInserts
    /\ Len(measurements) = 2
    /\ measurements[1].timestamp > measurements[2].timestamp
    /\ evicted # << >>
    /\ ~in_order

-----------------------------------------------------------------------------
(* What the setters of the DiameterController do to the PIDs *)

\* C23: set_target_diameter resets the diameter PID and leaves the volume
\* PID as it was; set_strategy, set_speed_scale_factor, set_current_diameter
\* and set_enabled(true) leave both PIDs as they were.
C23_SetterPidFrame ==
    [][/\ lastOp'.op = "set_target_diameter" =>
            /\ diameter_pid' = pid_reset(diameter_pid)
            /\ is_clear(diameter_pid')
            /\ ~IsSome(diameter_pid'.last)
            /\ volume_pid' = volume_pid
       /\ lastOp'.op \in {"set_strategy", "set_speed_scale_factor",
                          "set_current_diameter"} =>
            UNCHANGED <<diameter_pid, volume_pid>>
       /\ (lastOp'.op = "set_enabled" /\ lastOp'.arg) =>
            UNCHANGED <<diameter_pid, volume_pid>>]_vars

\* set_target_diameter was called on a controller whose PIDs had been
\* stepped: the diameter PID is reset, the volume PID still holds its
\* integral and its last update time.
C23_Witness ==
    /\ lastOp.op = "set_target_diameter"
    /\ ~IsSome(diameter_pid.last)
    /\ is_clear(diameter_pid)
    /\ IsSome(volume_pid.last)
    /\ volume_pid.ei # 0
    /\ volume_pid.ep # 0

-----------------------------------------------------------------------------
(* The puller under a scheduler that keeps ticking *)

\* a tick of the puller controller, as a step of the whole model
PullerTick ==
    CalcAngularVelocity /\ UNCHANGED <<trackerVars, regVars, historyVars>>

\* The scheduler calls calc_angular_velocity again and again, with a later
\* time on every call.
SpecPullerTicking ==
    InitPuller /\ [][NextPuller]_vars /\ WF_vars(PullerTick)

-----------------------------------------------------------------------------
(* Smoothing of the adjustments *)

\* the filter coefficients are hundredths
AlphaDenominator == 100

\* y = alpha * x + (1 - alpha) * y_prev, for x the numerator of the
\* unfiltered adjustment and y, y_prev numerators of filtered adjustments
\* (a filtered adjustment carries the denominator of x times
\* AlphaDenominator).
\* The equation, times AlphaDenominator, is
\*   AlphaDenominator * (y - alpha * x) = (AlphaDenominator - alpha) * y_prev;
\* it is evaluated on the quotient and remainder of y_prev by
\* AlphaDenominator, which keeps the products small.
IsMovingAverage(y, x, alpha, y_prev) ==
    LET c == AlphaDenominator - alpha
        q == y_prev \div AlphaDenominator
        r == y_prev % AlphaDenominator
    IN  /\ (c * r) % AlphaDenominator = 0
        /\ y - alpha * x = c * q + (c * r) \div AlphaDenominator

\* C25 as claimed: an enabled update that directly follows an enabled update
\* emits, for each of the two adjustments, alpha times the adjustment the
\* strategy computed plus (1 - alpha) times the adjustment the previous
\* update emitted (alpha = 0.1 for the winder, 0.15 for the extruder).
C25_Claimed ==
    [][(/\ EnabledUpdate'
        /\ EnabledUpdate
        /\ IsSome(output)
        /\ IsSome(output'))
       => LET current_time == clock'
              diameter_correction ==
                  pid_signal(diameter_pid,
                             error_of(target_diameter, current_diameter),
                             current_time)
              volume_correction ==
                  pid_signal(volume_pid,
                             error_of(target_volume_rate',
                                      current_volume_rate'),
                             current_time)
              adj == adjustments(strategy, diameter_correction,
                                 volume_correction, lastOp'.speed)
          IN  /\ IsMovingAverage(Unwrap(output').winder_speed_adjustment,
                                 adj[1], speed_filter_alpha,
                                 Unwrap(output).winder_speed_adjustment)
              /\ IsMovingAverage(Unwrap(output').extruder_rpm_adjustment,
                                 adj[2], volume_filter_alpha,
                                 Unwrap(output).extruder_rpm_adjustment)]_vars

-----------------------------------------------------------------------------
(* The laser machine with timeframes of 64 bits.  Under SpecWide the minutes *)
(* of the timeframe and the seconds of timeframe_duration are natural        *)
(* numbers in limbs, so that timeframe_minutes * 60 is computed in the width *)
(* of a u64.  An overflowing product wraps in a build without overflow       *)
(* checks and panics in a build with them.                                   *)

\* the bits of a u64
U64Bits == 64

\* u64::MAX
U64Max ==
    [i \in 1..(U64Bits \div LimbBits + 1) |->
        IF i = U64Bits \div LimbBits + 1
        THEN Pow2(U64Bits % LimbBits) - 1 ELSE LimbBase - 1]

\* a modulo 2^64
u64_wrap(a) ==
    BigNorm([i \in 1..Min(Len(a), U64Bits \div LimbBits + 1) |->
                IF i = U64Bits \div LimbBits + 1
                THEN a[i] % Pow2(U64Bits % LimbBits) ELSE a[i]])

\* whether a does not fit a u64
u64_overflows(a) == BigBits(a) > U64Bits

\* timeframe_minutes * 60, as a natural number
timeframe_secs_exact(timeframe_minutes) ==
    BigNorm(BigMulSmall(timeframe_minutes, 60, 0))

\* timeframe_minutes * 60 in u64 arithmetic without overflow checks
timeframe_secs_u64(timeframe_minutes) ==
    u64_wrap(timeframe_secs_exact(timeframe_minutes))

\* the largest number of minutes whose seconds fit a u64
MaxWholeMinutes == BigDivSmall(U64Max, 60)[1]

\* arguments of set_min_max_timeframe: small ones, the largest that does not
\* overflow, the smallest that does, and u64::MAX
WideMinutes ==
    {BigFromNat(0), BigFromNat(1), BigFromNat(30), MaxWholeMinutes,
     BigAddSmall(MaxWholeMinutes, 1), U64Max}

\* set_min_max_timeframe panicked in set_timeframe
Panicked == lastOp.op = "set_min_max_timeframe" /\ lastOp.panicked

\* LaserMachine::new with its timeframe of 30 minutes
InitWide ==
    /\ measurements = << >>
    /\ timeframe_duration = timeframe_secs_u64(
           BigFromNat(DefaultLaserTarget.min_max_timeframe_minutes))
    /\ laser_target =
           [DefaultLaserTarget EXCEPT !.min_max_timeframe_minutes =
                BigFromNat(DefaultLaserTarget.min_max_timeframe_minutes)]
    /\ diameter = 0
    /\ x_diameter = None
    /\ y_diameter = None
    /\ roundness = None
    /\ now = 0
    /\ emitted = <<state_event(FALSE, laser_target)>>
    /\ emitted_default_state = TRUE
    /\ state_events = 1
    /\ default_events = 1
    /\ TrackerFresh
    /\ DiameterController_new(175)
    /\ PullerSpeedController_new(0, 175)
    /\ NoHistory

\* LaserMachine::set_min_max_timeframe on an empty tracker.  The target is
\* assigned first; set_timeframe then multiplies.  With overflow checks
\* (overflow_checks = TRUE) an overflowing product panics there: the
\* duration is not assigned and no state is emitted.
WideSetMinMaxTimeframe(timeframe_minutes, overflow_checks) ==
    /\ measurements = << >>
    /\ laser_target' =
          [laser_target EXCEPT !.min_max_timeframe_minutes = timeframe_minutes]
    /\ IF overflow_checks
          /\ u64_overflows(timeframe_secs_exact(timeframe_minutes))
       THEN /\ lastOp' = [op |-> "set_min_max_timeframe",
                          arg |-> timeframe_minutes, panicked |-> TRUE]
            /\ UNCHANGED <<timeframe_duration, emitted,
                           emitted_default_state, state_events,
                           default_events>>
       ELSE /\ timeframe_duration' = timeframe_secs_u64(timeframe_minutes)
            /\ EmitStateWith(laser_target')
            /\ lastOp' = [op |-> "set_min_max_timeframe",
                          arg |-> timeframe_minutes, panicked |-> FALSE]
    /\ UNCHANGED <<measurements, evicted, diameter, x_diameter, y_diameter,
                   roundness, now, last_timestamp, in_order>>

\* a machine that panicked is not called again
NextWide ==
    \/ ~Panicked /\ EmitState
          /\ UNCHANGED <<regVars, pullerVars, historyVars>>
    \/ \E v \in ToleranceArgs :
          ~Panicked /\ SetHigherTolerance(v)
             /\ UNCHANGED <<regVars, pullerVars, historyVars>>
    \/ \E v \in ToleranceArgs :
          ~Panicked /\ SetLowerTolerance(v)
             /\ UNCHANGED <<regVars, pullerVars, historyVars>>
    \/ \E v \in TargetArgs :
          ~Panicked /\ SetTargetDiameter(v)
             /\ UNCHANGED <<regVars, pullerVars, historyVars>>
    \/ \E m \in WideMinutes, overflow_checks \in BOOLEAN :
          ~Panicked /\ WideSetMinMaxTimeframe(m, overflow_checks)
             /\ UNCHANGED <<regVars, pullerVars, historyVars>>
    \/ ~Panicked /\ EmitMinMaxDiameter
          /\ UNCHANGED <<regVars, pullerVars, historyVars>>

SpecWide == InitWide /\ [][NextWide]_vars

\* C26 as claimed: in every state of the laser machine the duration the
\* tracker evicts with is 60 seconds for each minute of the published
\* timeframe, laser_target.min_max_timeframe_minutes, for every u64 number of
\* minutes.
C26_Claimed ==
    timeframe_duration =
        timeframe_secs_exact(laser_target.min_max_timeframe_minutes)

-----------------------------------------------------------------------------
(* The velocity derived from the target diameter *)

\* a velocity that is neither +inf nor -inf
IsFinite(speed) == F64_NEG_INFINITY < speed /\ speed < F64_INFINITY

\* C27 as claimed: a tick of the enabled puller in Diameter mode never
\* divides by a cross-section area of zero, and the velocity it derives from
\* the target diameter and hands to the motion profile is finite, for every
\* target diameter >= 0 given to the constructor or to set_target_diameter.
C27_Claimed ==
    (/\ lastOp.op = "calc_angular_velocity"
     /\ puller_enabled
     /\ regulation_mode = "Diameter")
    => /\ puller_target_diameter * puller_target_diameter # 0
       /\ IsFinite(calculate_speed_for_diameter(puller_target_diameter))
       /\ IsFinite(lastOp.handed)

-----------------------------------------------------------------------------
(* The PIDs under a strategy that discards their output *)

\* C28: every enabled update steps the diameter PID with the diameter error
\* of the tick and the volume PID with its volume error, under every
\* strategy, also the PID whose output the strategy discards: the error is
\* remembered and the integral grows by error times the time since the
\* PID's last step.  The
\* extruder adjustment of a strategy other than WinderOnly, and the winder
\* adjustment of one other than ExtruderOnly, is computed from the PID as
\* the earlier updates left it, so the first output after a change of
\* strategy carries what the PID accumulated while it was ignored.
C28_BothPidsStepped ==
    [][EnabledUpdate' =>
          LET SteppedWith(pid, before, error, t) ==
                  /\ pid.ep = error
                  /\ pid.last = Some(t)
                  /\ pid.ei = before.ei
                              + error * (IF IsSome(before.last)
                                         THEN t - Unwrap(before.last) ELSE 0)
              diameter_error == target_diameter - current_diameter
              volume_error == target_volume_rate' - current_volume_rate'
              adj == adjustments(strategy,
                         pid_signal(diameter_pid, diameter_error, clock'),
                         pid_signal(volume_pid, volume_error, clock'),
                         lastOp'.speed)
          IN  /\ SteppedWith(diameter_pid', diameter_pid, diameter_error,
                             clock')
              /\ SteppedWith(volume_pid', volume_pid, volume_error, clock')
              /\ Unwrap(output').winder_speed_adjustment =
                     apply_filter(adj[1], speed_filter_alpha)
              /\ Unwrap(output').extruder_rpm_adjustment =
                     apply_filter(adj[2], volume_filter_alpha)]_vars

\* An update under WinderOnly returned an extruder adjustment of 0 and
\* stepped the volume PID all the same: it holds a volume error and an
\* integral.
C28_Witness ==
    /\ EnabledUpdate
    /\ strategy = "WinderOnly"
    /\ IsSome(output)
    /\ Unwrap(output).extruder_rpm_adjustment = 0
    /\ Unwrap(output).volume_error # 0
    /\ volume_pid.ep = Unwrap(output).volume_error
    /\ volume_pid.ei # 0
    /\ volume_pid.last = Some(clock)

====
